---------------------------- MODULE Spec2Model ----------------------------
(***************************************************************************)
(* windows-fs: Windows file-system utilities (src/index.js).               *)
(*                                                                         *)
(* The file holds two revisions of the module: the first (lines 1-208)     *)
(* exports getDirSize / getStats / mount, the second (lines 211-554)       *)
(* exports statDirectory / statByDriveLetter / mountedDrives / isMounted / *)
(* mount.  Where the two differ, both are modelled.                        *)
(*                                                                         *)
(* JavaScript strings are sequences of one-character strings.  The values  *)
(* null and undefined are the two sequences below, which are no string.    *)
(***************************************************************************)
EXTENDS Integers, Sequences, FiniteSets

VARIABLES
    invocations,  \* per call of statDirectory / getDirSize: its closure and promise
    walks,        \* per call: what the walk primitive was handed and has delivered
    fnCall,       \* the helper function applied last, with its arguments
    fnRet,        \* the completion of that application
    api,          \* the call of mount / statByDriveLetter / isMounted in flight
    procs         \* the child processes it has spawned, in spawn order

walkVars == <<invocations, walks>>
helperVars == <<fnCall, fnRet>>
shellVars == <<api, procs>>
vars == <<invocations, walks, fnCall, fnRet, api, procs>>

null == <<"null">>
undefined == <<"undefined">>
\* Error objects are one-element sequences too, naming the error.
TypeError == <<"TypeError">>

\* A completion of a JavaScript call: a returned value or a thrown exception.
Return(v) == [kind |-> "return", value |-> v]
Throw(e) == [kind |-> "throw", value |-> e]

Min(S) == CHOOSE x \in S : \A y \in S : x <= y

-----------------------------------------------------------------------------
(* Character classes of the regular expressions                            *)

Upper == {"A", "B", "C", "D", "E", "F", "G", "H", "I", "J", "K", "L", "M",
          "N", "O", "P", "Q", "R", "S", "T", "U", "V", "W", "X", "Y", "Z"}
Lower == {"a", "b", "c", "d", "e", "f", "g", "h", "i", "j", "k", "l", "m",
          "n", "o", "p", "q", "r", "s", "t", "u", "v", "w", "x", "y", "z"}
Digit == {"0", "1", "2", "3", "4", "5", "6", "7", "8", "9"}

\* \d
IsDigit(ch) == ch \in Digit
\* \w
IsWord(ch) == ch \in Upper \cup Lower \cup Digit \cup {"_"}
\* [^\s]
IsNonSpace(ch) == ch \notin {" ", "\t", "\n", "\r", "\f"}

\* Whether ch is of the class named: \d, \w or [^\s].
InClass(ch, class) ==
    IF class = "\\d" THEN IsDigit(ch)
    ELSE IF class = "\\w" THEN IsWord(ch)
    ELSE IsNonSpace(ch)

\* The end of the longest run of characters of a class that starts at i (a
\* greedy `+`).
RunEnd(str, i, class) ==
    Min({j \in i..Len(str) : j = Len(str) \/ ~InClass(str[j + 1], class)})

-----------------------------------------------------------------------------
(* Path helpers                                                            *)

\* toWindowsPath with a pattern that lacks the g flag: only the first forward
\* slash is replaced.
toWindowsPath_FirstOnly(path) ==
    IF path = undefined \/ path = null
    THEN Throw(TypeError)
    ELSE LET at == {i \in 1..Len(path) : path[i] = "/"}
         IN  Return([i \in 1..Len(path) |->
                        IF at # {} /\ i = Min(at) THEN "\\" ELSE path[i]])

\* path.replace(/\//g, '\\'); on undefined the property access throws.
toWindowsPath(path) ==
    IF path = undefined \/ path = null
    THEN Throw(TypeError)
    ELSE Return([i \in 1..Len(path) |-> IF path[i] = "/" THEN "\\" ELSE path[i]])

\* toUnc with a single leading slash
toUnc_OneSlash(server) == <<"/">> \o server

\* `//${server}`
toUnc(server) == <<"/", "/">> \o server

\* toWindowsPath(`${toUnc(server)}/${share}`)
toUncPath(server, share) == toWindowsPath(toUnc(server) \o <<"/">> \o share)

-----------------------------------------------------------------------------
(* Line parsers                                                            *)

\* /\d+/.exec(str)[0]: exec gives null when nothing matches, and null[0] throws.
parseNumber(str) ==
    LET starts == {i \in 1..Len(str) : IsDigit(str[i])}
    IN  IF starts = {}
        THEN Throw(TypeError)
        ELSE Return(SubSeq(str, Min(starts), RunEnd(str, Min(starts), "\\d")))

\* First revision: /([A-Z]):/.exec(str)[0]
parseDriveLetter1(str) ==
    LET starts == {i \in 1..(Len(str) - 1) : str[i] \in Upper /\ str[i + 1] = ":"}
    IN  IF starts = {}
        THEN Throw(TypeError)
        ELSE Return(SubSeq(str, Min(starts), Min(starts) + 1))

\* Second revision: re.test(str) ? re.exec(str)[0] : null
parseDriveLetter(str) ==
    LET starts == {i \in 1..(Len(str) - 1) : str[i] \in Upper /\ str[i + 1] = ":"}
    IN  IF starts # {}
        THEN Return(SubSeq(str, Min(starts), Min(starts) + 1))
        ELSE Return(null)

\* /^\w+/: re.test(str) ? re.exec(str)[0] : null
parseStatus(str) ==
    IF Len(str) >= 1 /\ IsWord(str[1])
    THEN Return(SubSeq(str, 1, RunEnd(str, 1, "\\w")))
    ELSE Return(null)

\* /\\\\[^\s]+/.exec(str)[0]
parseUNC(str) ==
    LET starts == {i \in 1..(Len(str) - 2) :
                      /\ str[i] = "\\"
                      /\ str[i + 1] = "\\"
                      /\ IsNonSpace(str[i + 2])}
    IN  IF starts = {}
        THEN Throw(TypeError)
        ELSE Return(SubSeq(str, Min(starts), RunEnd(str, Min(starts) + 2, "[^\\s]")))

-----------------------------------------------------------------------------
(* The helper functions applied to arbitrary strings                       *)

\* Longest string handed to a parser or to toWindowsPath.
MaxLen == 4
\* Longest server name and share path handed to toUncPath.
MaxPartLen == 2

\* One character of every kind the helpers tell apart: the two separators, a
\* lower-case letter, an upper-case letter, a digit, the colon and a blank.
FnChars == {"/", "\\", "a", "Z", "7", ":", " "}

Strings(n) == UNION {[1..k -> FnChars] : k \in 0..n}

\* The documented examples: toUncPath('server', 'some/path/to/a/log') and
\* toUncPath('server', 'path').
ExampleServer == <<"s", "e", "r", "v", "e", "r">>
ExampleShares ==
    { <<"s", "o", "m", "e", "/", "p", "a", "t", "h", "/", "t", "o", "/", "a", "/",
        "l", "o", "g">>,
      <<"p", "a", "t", "h">> }

NoCall == [fn |-> "none", args |-> <<>>, again |-> FALSE]

InitHelpers ==
    /\ fnCall = NoCall
    /\ fnRet = Return(undefined)

\* toWindowsPath(p) for a string p
CallToWindowsPath ==
    /\ fnCall.fn = "none"
    /\ \E p \in Strings(MaxLen) :
        /\ fnCall' = [fn |-> "toWindowsPath", args |-> <<p>>, again |-> FALSE]
        /\ fnRet' = toWindowsPath(p)
    /\ UNCHANGED <<walkVars, shellVars>>

\* toWindowsPath applied to a path it has returned
CallToWindowsPathAgain ==
    /\ fnCall.fn = "toWindowsPath"
    /\ ~fnCall.again
    /\ fnRet.kind = "return"
    /\ fnCall' = [fn |-> "toWindowsPath", args |-> <<fnRet.value, fnCall.args[1]>>,
                  again |-> TRUE]
    /\ fnRet' = toWindowsPath(fnRet.value)
    /\ UNCHANGED <<walkVars, shellVars>>

\* toUncPath(server, share)
CallToUncPath ==
    /\ fnCall.fn = "none"
    /\ \E server \in Strings(MaxPartLen) \cup {ExampleServer},
          share \in Strings(MaxPartLen) \cup ExampleShares :
        /\ fnCall' = [fn |-> "toUncPath", args |-> <<server, share>>, again |-> FALSE]
        /\ fnRet' = toUncPath(server, share)
    /\ UNCHANGED <<walkVars, shellVars>>

CallParseNumber ==
    /\ fnCall.fn = "none"
    /\ \E str \in Strings(MaxLen) :
        /\ fnCall' = [fn |-> "parseNumber", args |-> <<str>>, again |-> FALSE]
        /\ fnRet' = parseNumber(str)
    /\ UNCHANGED <<walkVars, shellVars>>

CallParseDriveLetter1 ==
    /\ fnCall.fn = "none"
    /\ \E str \in Strings(MaxLen) :
        /\ fnCall' = [fn |-> "parseDriveLetter1", args |-> <<str>>, again |-> FALSE]
        /\ fnRet' = parseDriveLetter1(str)
    /\ UNCHANGED <<walkVars, shellVars>>

CallParseDriveLetter ==
    /\ fnCall.fn = "none"
    /\ \E str \in Strings(MaxLen) :
        /\ fnCall' = [fn |-> "parseDriveLetter", args |-> <<str>>, again |-> FALSE]
        /\ fnRet' = parseDriveLetter(str)
    /\ UNCHANGED <<walkVars, shellVars>>

CallParseStatus ==
    /\ fnCall.fn = "none"
    /\ \E str \in Strings(MaxLen) :
        /\ fnCall' = [fn |-> "parseStatus", args |-> <<str>>, again |-> FALSE]
        /\ fnRet' = parseStatus(str)
    /\ UNCHANGED <<walkVars, shellVars>>

CallParseUNC ==
    /\ fnCall.fn = "none"
    /\ \E str \in Strings(MaxLen) :
        /\ fnCall' = [fn |-> "parseUNC", args |-> <<str>>, again |-> FALSE]
        /\ fnRet' = parseUNC(str)
    /\ UNCHANGED <<walkVars, shellVars>>

\* The caller has consumed the completion; the next call may start.
HelperDone ==
    /\ fnCall.fn # "none"
    /\ fnCall' = NoCall
    /\ fnRet' = Return(undefined)
    /\ UNCHANGED <<walkVars, shellVars>>

NextHelpers ==
    \/ CallToWindowsPath
    \/ CallToWindowsPathAgain
    \/ CallToUncPath
    \/ CallParseNumber
    \/ CallParseDriveLetter1
    \/ CallParseDriveLetter
    \/ CallParseStatus
    \/ CallParseUNC
    \/ HelperDone

-----------------------------------------------------------------------------
(* statDirectory and getDirSize over the walk primitive                    *)

\* Calls that may be in flight at once.
Calls == {1, 2}

\* Most onFile callbacks one walk delivers.
MaxFiles == 3

\* The path arguments: undefined, the empty string and 'c:/t'.
PathArgs == {undefined, <<>>, <<"c", ":", "/", "t">>}

\* The files a walk may report and the sizes their stats may carry.
FilePaths == {"a.log", "b.log"}
Sizes == {0, 100, 104}

\* The errors a walk may finish with.
Errors == {<<"ENOENT">>, <<"EACCES">>}

Pending == [state |-> "pending", value |-> undefined]
Fulfilled(v) == [state |-> "fulfilled", value |-> v]
Rejected(e) == [state |-> "rejected", value |-> e]

\* resolve(v) and reject(e) of a promise settle it only while it is pending.
resolve(promise, v) == IF promise.state = "pending" THEN Fulfilled(v) ELSE promise
reject(promise, e) == IF promise.state = "pending" THEN Rejected(e) ELSE promise

\* {}
EmptyObject == [k \in {} |-> undefined]

\* An entry that carries the name alone: the stats are not copied, and the
\* entry adds nothing to a sum over the entries.
FileEntry_NameOnly(path, stats) == [name |-> path, size |-> 0]

\* Object.assign({name: path}, stats): the properties of stats, and name
\* unless stats has a name of its own
FileEntry(path, stats) ==
    [k \in {"name"} \cup DOMAIN stats |->
        IF k \in DOMAIN stats THEN stats[k] ELSE path]

\* The number NaN. The sizes of files are naturals, and NaN is kept apart
\* from them as a number below all of them.
NaN == -1

\* An addition that leaves the total as it is when stats has no size
AddSize_SkipMissing(total, stats) ==
    IF "size" \in DOMAIN stats THEN total + stats.size ELSE total

\* total += stats.size: when stats has no size, stats.size is undefined and
\* the sum is NaN; a total that is NaN stays NaN.
AddSize(total, stats) ==
    IF total # NaN /\ "size" \in DOMAIN stats THEN total + stats.size ELSE NaN

NotCalled ==
    [fn |-> "none", arg |-> undefined, completion |-> "none",
     count |-> 0, size |-> 0, files |-> EmptyObject, promise |-> Pending]

NotWalked ==
    [invoked |-> FALSE, path |-> undefined, delivered |-> <<>>,
     finished |-> FALSE, err |-> null]

InitWalks ==
    /\ invocations = [c \in Calls |-> NotCalled]
    /\ walks = [c \in Calls |-> NotWalked]

\* statDirectory with resolve() called in the executor itself, before the
\* walk has reported anything
statDirectory_ResolveEarly(c, path) ==
    /\ invocations[c].fn = "none"
    /\ LET native == toWindowsPath(path)
       IN  IF native.kind = "throw"
           THEN /\ invocations' = [invocations EXCEPT ![c] =
                      [NotCalled EXCEPT !.fn = "statDirectory", !.arg = path,
                                        !.completion = "threw"]]
                /\ UNCHANGED walks
           ELSE /\ invocations' = [invocations EXCEPT ![c] =
                      [NotCalled EXCEPT !.fn = "statDirectory", !.arg = path,
                                        !.completion = "returned",
                                        !.promise = Fulfilled(
                                            [size |-> 0, count |-> 0,
                                             files |-> EmptyObject])]]
                /\ walks' = [walks EXCEPT ![c] =
                      [NotWalked EXCEPT !.invoked = TRUE, !.path = native.value]]
    /\ UNCHANGED <<helperVars, shellVars>>

\* statDirectory(path) up to the return of the promise: normalise the path,
\* initialise the closure, hand the path and the callbacks to walk.
statDirectory(c, path) ==
    /\ invocations[c].fn = "none"
    /\ LET native == toWindowsPath(path)
       IN  IF native.kind = "throw"
           THEN /\ invocations' = [invocations EXCEPT ![c] =
                      [NotCalled EXCEPT !.fn = "statDirectory", !.arg = path,
                                        !.completion = "threw"]]
                /\ UNCHANGED walks
           ELSE /\ invocations' = [invocations EXCEPT ![c] =
                      [NotCalled EXCEPT !.fn = "statDirectory", !.arg = path,
                                        !.completion = "returned"]]
                /\ walks' = [walks EXCEPT ![c] =
                      [NotWalked EXCEPT !.invoked = TRUE, !.path = native.value]]
    /\ UNCHANGED <<helperVars, shellVars>>

\* onFile that assigns the size of the file instead of adding it
statDirectory_onFile_Assign(c, path, stats) ==
    /\ invocations' = [invocations EXCEPT ![c] =
          [@ EXCEPT !.files = [k \in DOMAIN @ \cup {path} |->
                                  IF k = path THEN FileEntry(path, stats) ELSE @[k]],
                    !.count = @ + 1,
                    !.size = stats.size]]

\* onFile over accumulators that are declared outside the promise executor,
\* and so are the same for every call in flight
statDirectory_onFile_Shared(c, path, stats) ==
    /\ invocations' = [d \in Calls |->
          IF invocations[d].fn = "statDirectory"
          THEN [invocations[d] EXCEPT
                   !.files = [k \in DOMAIN @ \cup {path} |->
                                 IF k = path THEN FileEntry(path, stats) ELSE @[k]],
                   !.count = @ + 1,
                   !.size = @ + stats.size]
          ELSE invocations[d]]

\* statDirectory's onFile(path, stats)
statDirectory_onFile(c, path, stats) ==
    /\ invocations' = [invocations EXCEPT ![c] =
          [@ EXCEPT !.files = [k \in DOMAIN @ \cup {path} |->
                                  IF k = path THEN FileEntry(path, stats) ELSE @[k]],
                    !.count = @ + 1,
                    !.size = AddSize(@, stats)]]

\* onFinish that does not look at err
statDirectory_onFinish_IgnoreErr(c, err) ==
    /\ invocations' = [invocations EXCEPT ![c] =
          [@ EXCEPT !.promise =
              resolve(@, [size |-> invocations[c].size,
                          count |-> invocations[c].count,
                          files |-> invocations[c].files])]]

\* statDirectory's onFinish(err)
statDirectory_onFinish(c, err) ==
    /\ invocations' = [invocations EXCEPT ![c] =
          [@ EXCEPT !.promise =
              IF err # null
              THEN reject(@, err)
              ELSE resolve(@, [size |-> invocations[c].size,
                               count |-> invocations[c].count,
                               files |-> invocations[c].files])]]

\* getDirSize(path), first revision
getDirSize(c, path) ==
    /\ invocations[c].fn = "none"
    /\ LET native == toWindowsPath(path)
       IN  IF native.kind = "throw"
           THEN /\ invocations' = [invocations EXCEPT ![c] =
                      [NotCalled EXCEPT !.fn = "getDirSize", !.arg = path,
                                        !.completion = "threw"]]
                /\ UNCHANGED walks
           ELSE /\ invocations' = [invocations EXCEPT ![c] =
                      [NotCalled EXCEPT !.fn = "getDirSize", !.arg = path,
                                        !.completion = "returned"]]
                /\ walks' = [walks EXCEPT ![c] =
                      [NotWalked EXCEPT !.invoked = TRUE, !.path = native.value]]
    /\ UNCHANGED <<helperVars, shellVars>>

\* getDirSize's onFile(path, stats): its `count` is the byte total
getDirSize_onFile(c, path, stats) ==
    /\ invocations' = [invocations EXCEPT ![c] = [@ EXCEPT !.count = AddSize(@, stats)]]

\* getDirSize's onFinish(err)
getDirSize_onFinish(c, err) ==
    /\ invocations' = [invocations EXCEPT ![c] =
          [@ EXCEPT !.promise =
              IF err # null
              THEN reject(@, err)
              ELSE resolve(@, invocations[c].count)]]

\* The walk primitive reports one more file of the tree to the onFile it was
\* handed: it has reported fewer than `most` files, and the stats of the file
\* are one of `statsOf`.
WalkDelivers(c, most, statsOf) ==
    /\ walks[c].invoked
    /\ ~walks[c].finished
    /\ Len(walks[c].delivered) < most
    /\ \E path \in FilePaths, stats \in statsOf :
        /\ walks' = [walks EXCEPT ![c].delivered =
                        Append(@, [path |-> path, stats |-> stats])]
        /\ IF invocations[c].fn = "statDirectory"
           THEN statDirectory_onFile(c, path, stats)
           ELSE getDirSize_onFile(c, path, stats)
    /\ UNCHANGED <<helperVars, shellVars>>

\* A walk of up to MaxFiles files, each with a size.
WalkFile(c) == WalkDelivers(c, MaxFiles, {[size |-> sz] : sz \in Sizes})

\* The walk primitive ends, once, with an error or without, and calls the
\* onFinish it was handed.
WalkFinish(c) ==
    /\ walks[c].invoked
    /\ ~walks[c].finished
    /\ \E err \in Errors \cup {null} :
        /\ walks' = [walks EXCEPT ![c].finished = TRUE, ![c].err = err]
        /\ IF invocations[c].fn = "statDirectory"
           THEN statDirectory_onFinish(c, err)
           ELSE getDirSize_onFinish(c, err)
    /\ UNCHANGED <<helperVars, shellVars>>

-----------------------------------------------------------------------------
(* mount, statByDriveLetter / getStats, mountedDrives and isMounted over   *)
(* buffered-spawn                                                          *)

\* const wmicArgs = ['freeSpace', 'size']
wmicArgs == <<"freeSpace", "size">>

\* The words of the command lines.
W_net == <<"n", "e", "t">>
W_use == <<"u", "s", "e">>
W_star == <<"*">>
W_userOpt == <<"/", "u", "s", "e", "r", ":">>
W_wmic == <<"w", "m", "i", "c">>
W_logicaldisk == <<"l", "o", "g", "i", "c", "a", "l", "d", "i", "s", "k">>
W_where == <<"w", "h", "e", "r", "e">>
W_get == <<"g", "e", "t">>
W_deviceId == <<"D", "e", "v", "i", "c", "e", "I", "D", "=", "\"">>
W_quote == <<"\"">>

\* A JavaScript string of the table above for an entry of wmicArgs.
WmicWord(arg) ==
    IF arg = "freeSpace"
    THEN <<"f", "r", "e", "e", "S", "p", "a", "c", "e">>
    ELSE <<"s", "i", "z", "e">>

\* !v for a string or undefined / null
Falsy(v) == v = undefined \/ v = null \/ v = <<>>

\* The error buffered-spawn rejects with when the command fails.
SpawnError == <<"SpawnError">>

\* spawn(cmd, args): a child process that is running.
Spawned(cmd, args) ==
    [cmd |-> cmd, args |-> args, state |-> "running", stdout |-> <<>>,
     lines |-> <<>>, then |-> Pending]

\* The credentials argument: absent, or an object whose user and password
\* fields are strings or undefined.
NoCredentials == [given |-> FALSE, user |-> undefined, password |-> undefined]
CredentialArgs ==
    { NoCredentials,
      [given |-> TRUE, user |-> <<"u">>, password |-> <<"p", "w">>],
      [given |-> TRUE, user |-> <<"u">>, password |-> undefined] }

\* The unc and path arguments of mount: 's' or '', and 'c$', 'a/b' or ''.
MountServers == {<<"s">>, <<>>}
MountShares == {<<"c", "$">>, <<"a", "/", "b">>, <<>>}

\* What `net use * \\server\share` may print: the drive it connected, or a
\* text that names no drive.
MountOutputs ==
    { <<"D", "r", "i", "v", "e", " ", "Y", ":", " ", "o", "k">>,
      <<"d", "o", "n", "e">> }

ApiIdle ==
    [fn |-> "none", args |-> <<>>, credentials |-> NoCredentials,
     completion |-> "none", promise |-> Pending]

ApiCall(fn, args, credentials, completion) ==
    [fn |-> fn, args |-> args, credentials |-> credentials,
     completion |-> completion, promise |-> Pending]

\* mount(unc, path, credentials), first revision, up to the spawn
mount1(unc, path, credentials) ==
    /\ api.fn = "none"
    /\ IF Falsy(unc) /\ Falsy(path)
       THEN /\ api' = ApiCall("mount1", <<unc, path>>, credentials, "threw")
            /\ UNCHANGED procs
       ELSE LET args == <<W_use, W_star, toUncPath(unc, path).value>>
            IN  IF credentials.given
                       /\ ~(~Falsy(credentials.user) /\ ~Falsy(credentials.password))
                THEN /\ api' = ApiCall("mount1", <<unc, path>>, credentials, "threw")
                     /\ UNCHANGED procs
                ELSE \* the else branch reads credentials.user also when
                     \* credentials is undefined
                     IF ~credentials.given
                     THEN /\ api' = ApiCall("mount1", <<unc, path>>, credentials,
                                            "threw")
                          /\ UNCHANGED procs
                     ELSE /\ api' = ApiCall("mount1", <<unc, path>>, credentials,
                                            "returned")
                          /\ procs' = <<Spawned(W_net,
                                  args \o <<W_userOpt \o credentials.user,
                                            credentials.password>>)>>
    /\ UNCHANGED <<walkVars, helperVars>>

\* mount(unc, path, credentials), second revision, up to the spawn
mount(unc, path, credentials) ==
    /\ api.fn = "none"
    /\ IF Falsy(unc) /\ Falsy(path)
       THEN /\ api' = ApiCall("mount", <<unc, path>>, credentials, "threw")
            /\ UNCHANGED procs
       ELSE LET args == <<W_use, W_star, toUncPath(unc, path).value>>
            IN  IF credentials.given
                THEN IF Falsy(credentials.user) \/ Falsy(credentials.password)
                     THEN /\ api' = ApiCall("mount", <<unc, path>>, credentials,
                                            "threw")
                          /\ UNCHANGED procs
                     ELSE /\ api' = ApiCall("mount", <<unc, path>>, credentials,
                                            "returned")
                          /\ procs' = <<Spawned(W_net,
                                  args \o <<W_userOpt \o credentials.user,
                                            credentials.password>>)>>
                ELSE /\ api' = ApiCall("mount", <<unc, path>>, credentials,
                                       "returned")
                     /\ procs' = <<Spawned(W_net, args)>>
    /\ UNCHANGED <<walkVars, helperVars>>

\* .then((io) => parseDriveLetter(io.stdout)) of either revision: a callback
\* that throws rejects the promise.
mount_then(fn, stdout) ==
    LET letter == IF fn = "mount1" THEN parseDriveLetter1(stdout)
                                   ELSE parseDriveLetter(stdout)
    IN  IF letter.kind = "throw" THEN Rejected(letter.value)
                                 ELSE Fulfilled(letter.value)

\* The drive letters asked about: 'c:'.
DriveLetters == {<<"c", ":">>}

\* What `wmic logicaldisk ... get <arg>` may print: the column header and a
\* value on the next line, or the header alone (a drive that reports none).
WmicOutputs ==
    { <<"S", "i", "z", "e", "\n", "4", "2", " ">>,
      <<"S", "i", "z", "e", "\n", "7">>,
      <<"S", "i", "z", "e", "\n", " ">> }

DigitSeq == <<"0", "1", "2", "3", "4", "5", "6", "7", "8", "9">>

RECURSIVE Number(_)
\* Number(str) for a string of decimal digits
Number(digits) ==
    IF digits = <<>>
    THEN 0
    ELSE 10 * Number(SubSeq(digits, 1, Len(digits) - 1))
         + (CHOOSE d \in 1..10 : DigitSeq[d] = digits[Len(digits)]) - 1

\* wmicArgs.map((arg) => spawn('wmic', ['logicaldisk', 'where',
\* `DeviceID="${letter}"`, 'get', arg])): one process per entry of wmicArgs,
\* spawned in the order of wmicArgs.
SpawnWmic(letter) ==
    [i \in 1..Len(wmicArgs) |->
        Spawned(W_wmic, <<W_logicaldisk, W_where, W_deviceId \o letter \o W_quote,
                          W_get, WmicWord(wmicArgs[i])>>)]

\* statByDriveLetter(letter), second revision, up to Promise.all
statByDriveLetter(letter) ==
    /\ api.fn = "none"
    /\ api' = ApiCall("statByDriveLetter", <<letter>>, NoCredentials, "returned")
    /\ procs' = SpawnWmic(letter)
    /\ UNCHANGED <<walkVars, helperVars>>

\* getStats(letter), first revision, up to Promise.all
getStats(letter) ==
    /\ api.fn = "none"
    /\ api' = ApiCall("getStats", <<letter>>, NoCredentials, "returned")
    /\ procs' = SpawnWmic(letter)
    /\ UNCHANGED <<walkVars, helperVars>>

\* .then((io) => { obj[arg] = Number(parseNumber(io.stdout)); return obj })
wmic_then(arg, stdout) ==
    LET digits == parseNumber(stdout)
    IN  IF digits.kind = "throw"
        THEN Rejected(digits.value)
        ELSE Fulfilled([k \in {arg} |-> Number(digits.value)])

\* Object.assign(acc, stat)
ObjectAssign(acc, stat) ==
    [k \in DOMAIN acc \cup DOMAIN stat |-> IF k \in DOMAIN stat THEN stat[k] ELSE acc[k]]

RECURSIVE MergeStats(_, _)
\* stats.reduce((acc, stat) => Object.assign(acc, stat), {})
MergeStats(acc, stats) ==
    IF stats = <<>>
    THEN acc
    ELSE MergeStats(ObjectAssign(acc, Head(stats)), Tail(stats))

\* Promise.all(procs).then(merge) after one more of the promises has settled:
\* rejected with the reason of the first promise found rejected, fulfilled
\* with the merged objects once every promise is fulfilled.
PromiseAll(promise, thens, settled) ==
    IF thens[settled].state = "rejected"
    THEN reject(promise, thens[settled].value)
    ELSE IF \A i \in 1..Len(thens) : thens[i].state = "fulfilled"
         THEN resolve(promise,
                      MergeStats(EmptyObject, [i \in 1..Len(thens) |-> thens[i].value]))
         ELSE promise

\* remove(0, 6): the lines of the header of `net use`
HeaderLines == 6

\* Most lines `net use` prints after its header.
MaxLines == 3

\* The header of `net use`: a notice, a blank line, the column titles, the
\* rule under them (shortened), with blank lines between.
NetUseHeader ==
    << <<"N", "e", "w", " ", "c", "o", "n", "n", "e", "c", "t", "i", "o", "n", "s">>,
       <<>>,
       <<>>,
       <<"S", "t", "a", "t", "u", "s", " ", "L", "o", "c", "a", "l", " ",
         "R", "e", "m", "o", "t", "e">>,
       <<>>,
       <<"-", "-", "-", "-">> >>

\* The lines `net use` may print after the header:
\*   OK Z: \\s\a          a connected drive
\*   OK Y: \\s\b nw       another one, with the network column
\*    X: \\s\a            a remembered drive without a status
\*   Microsoft nw         the network column of a wrapped entry
\*   OK W:                a status and a drive letter, no remote name
NetUseLines ==
    { <<"O", "K", " ", "Z", ":", " ", "\\", "\\", "s", "\\", "a">>,
      <<"O", "K", " ", "Y", ":", " ", "\\", "\\", "s", "\\", "b", " ", "n", "w">>,
      <<" ", "X", ":", " ", "\\", "\\", "s", "\\", "a">>,
      <<"M", "i", "c", "r", "o", "s", "o", "f", "t", " ", "n", "w">>,
      <<"O", "K", " ", "W", ":">> }

\* `net use` without a single connection prints one line and no header.
NoEntries == << <<"T", "h", "e", "r", "e", " ", "a", "r", "e", " ", "n", "o", " ",
                 "e", "n", "t", "r", "i", "e", "s">> >>

\* The texts `net use` may print, as lists of lines.
NetUsePrints ==
    {NoEntries} \cup
    {NetUseHeader \o body : body \in UNION {[1..k -> NetUseLines] : k \in 0..MaxLines}}

RECURSIVE JoinLines(_)
\* The text of a list of lines: the lines with a line feed between them.
JoinLines(lines) ==
    IF Len(lines) = 0 THEN <<>>
    ELSE IF Len(lines) = 1 THEN lines[1]
    ELSE lines[1] \o <<"\n">> \o JoinLines(Tail(lines))

\* The `unc` arguments of isMounted: 's/a', 's/b' and 's/c'.
UncArgs == {<<"s", "/", "a">>, <<"s", "/", "b">>, <<"s", "/", "c">>}

RECURSIVE split(_, _)
\* split('\n'): the pieces of str between the occurrences of sep
split(sep, str) ==
    LET at == {i \in 1..Len(str) : str[i] = sep}
    IN  IF at = {}
        THEN <<str>>
        ELSE <<SubSeq(str, 1, Min(at) - 1)>>
             \o split(sep, SubSeq(str, Min(at) + 1, Len(str)))

\* remove(0, count): the list without its first count elements
remove(count, list) == SubSeq(list, count + 1, Len(list))

RECURSIVE reduceLines(_, _)
\* reduce((acc, line) => ..., []): a line without status or without drive
\* letter is skipped, any other line appends { letter, unc }; an exception
\* thrown on a line ends the reduce.
reduceLines(acc, lines) ==
    IF lines = <<>>
    THEN Return(acc)
    ELSE LET line == Head(lines)
             status == parseStatus(line)
             letter == parseDriveLetter(line)
             unc == parseUNC(line)
         IN  IF status.value = null THEN reduceLines(acc, Tail(lines))
             ELSE IF letter.value = null THEN reduceLines(acc, Tail(lines))
             ELSE IF unc.kind = "throw" THEN unc
             ELSE reduceLines(Append(acc, [letter |-> letter.value, unc |-> unc.value]),
                              Tail(lines))

\* mountedDrives(), up to the spawn
mountedDrives ==
    /\ api.fn = "none"
    /\ api' = ApiCall("mountedDrives", <<>>, NoCredentials, "returned")
    /\ procs' = <<Spawned(W_net, <<W_use>>)>>
    /\ UNCHANGED <<walkVars, helperVars>>

\* .then((io) => pipe(split('\n'), remove(0, 6), reduce(...))(io.stdout))
mountedDrives_then(stdout) ==
    LET drives == reduceLines(<<>>, remove(HeaderLines, split("\n", stdout)))
    IN  IF drives.kind = "throw" THEN Rejected(drives.value)
                                 ELSE Fulfilled(drives.value)

\* isMounted(unc), up to the spawn of mountedDrives(); the second argument
\* holds the converted unc.
isMounted(unc) ==
    /\ api.fn = "none"
    /\ api' = ApiCall("isMounted", <<unc, toWindowsPath(toUnc(unc)).value>>,
                      NoCredentials, "returned")
    /\ procs' = <<Spawned(W_net, <<W_use>>)>>
    /\ UNCHANGED <<walkVars, helperVars>>

\* .then((drives) => { i = findIndex(el => el.unc == unc, drives); ... })
isMounted_then(unc, mounted) ==
    IF mounted.state = "rejected"
    THEN mounted
    ELSE LET drives == mounted.value
             found == {i \in 1..Len(drives) : drives[i].unc = unc}
         IN  IF found # {} THEN Fulfilled(drives[Min(found)].letter)
                           ELSE Fulfilled(undefined)

\* What the spawned command may print.
PrintsOf(fn) ==
    IF fn \in {"mount", "mount1"} THEN {<<out>> : out \in MountOutputs}
    ELSE IF fn \in {"statByDriveLetter", "getStats"} THEN {<<out>> : out \in WmicOutputs}
    ELSE NetUsePrints

\* The promise of the call after the promise of process i has settled.
Settle(fn, args, promise, thens, i) ==
    IF fn \in {"mount", "mount1"} THEN thens[i]
    ELSE IF fn \in {"statByDriveLetter", "getStats"} THEN PromiseAll(promise, thens, i)
    ELSE IF fn = "mountedDrives" THEN thens[i]
    ELSE isMounted_then(args[2], thens[i])

\* The promise that the call chains on the process: spawn(...).then(...)
Then(fn, i, stdout) ==
    IF fn \in {"mount", "mount1"} THEN mount_then(fn, stdout)
    ELSE IF fn \in {"statByDriveLetter", "getStats"} THEN wmic_then(wmicArgs[i], stdout)
    ELSE mountedDrives_then(stdout)

\* A spawned command ends with exit code 0, having printed some text:
\* buffered-spawn resolves with { stdout }, and the callbacks chained on it run.
ProcSucceeds(i) ==
    /\ i \in 1..Len(procs)
    /\ procs[i].state = "running"
    /\ \E lines \in PrintsOf(api.fn) :
        LET stdout == JoinLines(lines)
            after == [procs EXCEPT ![i].state = "succeeded",
                                   ![i].stdout = stdout,
                                   ![i].lines = lines,
                                   ![i].then = Then(api.fn, i, stdout)]
        IN  /\ procs' = after
            /\ api' = [api EXCEPT !.promise =
                          Settle(api.fn, api.args, @,
                                 [j \in 1..Len(after) |-> after[j].then], i)]
    /\ UNCHANGED <<walkVars, helperVars>>

\* A spawned command fails: buffered-spawn rejects, and so does every promise
\* chained on it.
ProcFails(i) ==
    /\ i \in 1..Len(procs)
    /\ procs[i].state = "running"
    /\ LET after == [procs EXCEPT ![i].state = "failed",
                                  ![i].then = Rejected(SpawnError)]
       IN  /\ procs' = after
           /\ api' = [api EXCEPT !.promise =
                         Settle(api.fn, api.args, @,
                                [j \in 1..Len(after) |-> after[j].then], i)]
    /\ UNCHANGED <<walkVars, helperVars>>

\* Nothing of the shell commands is in flight.
InitShell ==
    /\ api = ApiIdle
    /\ procs = <<>>

\* The calls of a run with one call in flight.
Single == {1}

Init == InitWalks /\ InitHelpers /\ InitShell

Next ==
    \E c \in Single :
        \/ \E path \in PathArgs : statDirectory(c, path)
        \/ \E path \in PathArgs : getDirSize(c, path)
        \/ WalkFile(c)
        \/ WalkFinish(c)

Spec == Init /\ [][Next]_vars

SpecHelpers == Init /\ [][NextHelpers]_vars

\* Two calls of statDirectory in flight against the same directory.
MaxConcurrentFiles == 2
ConcurrentSizes == {100, 104}
Directory == <<"c", ":", "/", "t">>

NextConcurrent ==
    \E c \in Calls :
        \/ statDirectory(c, Directory)
        \/ WalkDelivers(c, MaxConcurrentFiles, {[size |-> sz] : sz \in ConcurrentSizes})
        \/ WalkFinish(c)

SpecConcurrent == Init /\ [][NextConcurrent]_vars

\* One call whose walk may report files whose stats have no size.
SizelessStats == [birthtime |-> 1]
MixedStats == {[size |-> sz] : sz \in ConcurrentSizes} \cup {SizelessStats}

NextMissingSize ==
    \E c \in Single :
        \/ statDirectory(c, Directory)
        \/ getDirSize(c, Directory)
        \/ WalkDelivers(c, MaxFiles, MixedStats)
        \/ WalkFinish(c)

SpecMissingSize == Init /\ [][NextMissingSize]_vars

NextShell ==
    \/ \E unc \in MountServers, path \in MountShares, credentials \in CredentialArgs :
          mount1(unc, path, credentials)
    \/ \E unc \in MountServers, path \in MountShares, credentials \in CredentialArgs :
          mount(unc, path, credentials)
    \/ \E letter \in DriveLetters : getStats(letter)
    \/ \E letter \in DriveLetters : statByDriveLetter(letter)
    \/ mountedDrives
    \/ \E unc \in UncArgs : isMounted(unc)
    \/ \E i \in 1..Len(wmicArgs) : ProcSucceeds(i)
    \/ \E i \in 1..Len(wmicArgs) : ProcFails(i)

SpecShell == Init /\ [][NextShell]_vars

-----------------------------------------------------------------------------
(* Properties of statDirectory and getDirSize                              *)

RECURSIVE SumSizes(_)
\* The sum of stats.size over a list of deliveries.
SumSizes(deliveries) ==
    IF deliveries = <<>>
    THEN 0
    ELSE deliveries[1].stats.size + SumSizes(Tail(deliveries))

RECURSIVE SumEntries(_, _)
\* The sum of the size field over the entries of files with a key in keys.
SumEntries(files, keys) ==
    IF keys = {}
    THEN 0
    ELSE LET k == CHOOSE k \in keys : TRUE
         IN  files[k].size + SumEntries(files, keys \ {k})

DistinctPaths(deliveries) ==
    \A i, j \in 1..Len(deliveries) :
        deliveries[i].path = deliveries[j].path => i = j

\* C1: when the walk finishes without an error, statDirectory resolves with
\* size = the sum of stats.size over the delivered onFile callbacks and count
\* = their number, getDirSize resolves with the same sum, and after no
\* callback at all the result is { size: 0, count: 0, files: {} }.
C1_SumAndCount ==
    \A c \in Calls :
        (walks[c].finished /\ walks[c].err = null) =>
            LET inv == invocations[c]
                delivered == walks[c].delivered
            IN  /\ inv.promise.state = "fulfilled"
                /\ inv.fn = "statDirectory" =>
                      /\ inv.promise.value.size = SumSizes(delivered)
                      /\ inv.promise.value.count = Len(delivered)
                      /\ delivered = <<>> =>
                            inv.promise.value =
                                [size |-> 0, count |-> 0, files |-> EmptyObject]
                /\ inv.fn = "getDirSize" =>
                      inv.promise.value = SumSizes(delivered)

\* The fixture of the tests: two files of 100 and 104 bytes give 204 and 2.
C1_Witness ==
    \E c \in Calls :
        /\ invocations[c].fn = "statDirectory"
        /\ invocations[c].promise.state = "fulfilled"
        /\ Len(walks[c].delivered) = 2
        /\ invocations[c].promise.value.size = 204
        /\ invocations[c].promise.value.count = 2

\* C2 as stated: whatever paths the walk reports, the resolved size is the sum
\* of size over the entries of files and count is the number of entries.
C2_Original ==
    \A c \in Calls :
        (invocations[c].fn = "statDirectory"
            /\ invocations[c].promise.state = "fulfilled") =>
            LET r == invocations[c].promise.value
            IN  /\ r.size = SumEntries(r.files, DOMAIN r.files)
                /\ r.count = Cardinality(DOMAIN r.files)

\* C2 amended: the resolved size and count equal the sum over and the number
\* of the entries of files when the delivered paths are pairwise distinct; a
\* path delivered again overwrites its entry and is counted again, so that
\* count then exceeds the number of entries (and size is no less than the sum
\* over the entries).
C2_Amended ==
    \A c \in Calls :
        (invocations[c].fn = "statDirectory"
            /\ invocations[c].promise.state = "fulfilled") =>
            LET r == invocations[c].promise.value
                delivered == walks[c].delivered
            IN  /\ DOMAIN r.files = {delivered[i].path : i \in 1..Len(delivered)}
                /\ \A k \in DOMAIN r.files : r.files[k].name = k
                /\ r.size >= SumEntries(r.files, DOMAIN r.files)
                /\ DistinctPaths(delivered) =>
                      /\ r.size = SumEntries(r.files, DOMAIN r.files)
                      /\ r.count = Cardinality(DOMAIN r.files)
                /\ ~DistinctPaths(delivered) =>
                      r.count > Cardinality(DOMAIN r.files)

\* Two distinct files delivered, both with a size, and the call resolved.
C2_Witness ==
    \E c \in Calls :
        /\ invocations[c].fn = "statDirectory"
        /\ invocations[c].promise.state = "fulfilled"
        /\ DistinctPaths(walks[c].delivered)
        /\ Cardinality(DOMAIN invocations[c].promise.value.files) = 2
        /\ \A k \in DOMAIN invocations[c].promise.value.files :
              invocations[c].promise.value.files[k].size > 0

\* C3: once the walk has called onFinish with an error, the promise of
\* statDirectory / getDirSize is rejected with exactly that error, however
\* many files were delivered before; it holds no size, count or files.
C3_RejectsWithError ==
    \A c \in Calls :
        (walks[c].finished /\ walks[c].err # null) =>
            /\ invocations[c].promise.state = "rejected"
            /\ invocations[c].promise.value = walks[c].err

\* The walk failed after it had delivered two files.
C3_Witness ==
    \E c \in Calls :
        /\ invocations[c].fn = "statDirectory"
        /\ walks[c].finished
        /\ walks[c].err \in Errors
        /\ Len(walks[c].delivered) >= 2
        /\ invocations[c].size > 0

\* C4 as stated: statDirectory called with undefined or with the empty string
\* fails synchronously and never invokes the walk primitive.
C4_Original ==
    \A c \in Calls :
        (invocations[c].fn = "statDirectory"
            /\ invocations[c].arg \in {undefined, <<>>}) =>
            /\ invocations[c].completion = "threw"
            /\ ~walks[c].invoked

-----------------------------------------------------------------------------
(* Properties of the helper functions                                      *)

\* C5: toWindowsPath returns its argument with every forward slash replaced by
\* a backslash and every other character kept: the result holds no forward
\* slash, a path without forward slash comes back unchanged, and applying
\* toWindowsPath to its own result returns that result.
C5_ToWindowsPath ==
    fnCall.fn = "toWindowsPath" =>
        LET p == fnCall.args[1]
        IN  /\ fnRet.kind = "return"
            /\ Len(fnRet.value) = Len(p)
            /\ \A i \in 1..Len(p) :
                  fnRet.value[i] = IF p[i] = "/" THEN "\\" ELSE p[i]
            /\ \A i \in 1..Len(fnRet.value) : fnRet.value[i] # "/"
            /\ (\A i \in 1..Len(p) : p[i] # "/") => fnRet.value = p
            /\ fnCall.again => fnRet.value = p

\* toWindowsPath applied a second time, to the result for a path that mixes
\* forward slashes with other characters.
C5_Witness ==
    /\ fnCall.fn = "toWindowsPath"
    /\ fnCall.again
    /\ \E i, j \in 1..Len(fnCall.args[2]) :
          /\ fnCall.args[2][i] = "/"
          /\ fnCall.args[2][j] = "a"
    /\ fnRet.kind = "return"

\* C6 as stated: toUncPath(server, share) is two backslashes, the server name
\* as given, one backslash, then toWindowsPath(share).
C6_Original ==
    fnCall.fn = "toUncPath" =>
        /\ fnRet.kind = "return"
        /\ fnRet.value = <<"\\", "\\">> \o fnCall.args[1] \o <<"\\">>
                            \o toWindowsPath(fnCall.args[2]).value

\* C6 amended: toUncPath(server, share) is two backslashes, the server name
\* with every forward slash of it turned into a backslash (the server name
\* itself when it holds none), one backslash, then toWindowsPath(share);
\* toUncPath('server', 'some/path/to/a/log') is \\server\some\path\to\a\log.
C6_Amended ==
    fnCall.fn = "toUncPath" =>
        LET server == fnCall.args[1]
            share == fnCall.args[2]
            r == fnRet.value
        IN  /\ fnRet.kind = "return"
            /\ Len(r) = 2 + Len(server) + 1 + Len(share)
            /\ r[1] = "\\" /\ r[2] = "\\"
            /\ \A i \in 1..Len(server) :
                  r[2 + i] = IF server[i] = "/" THEN "\\" ELSE server[i]
            /\ r[2 + Len(server) + 1] = "\\"
            /\ SubSeq(r, 2 + Len(server) + 2, Len(r)) = toWindowsPath(share).value
            /\ (\A i \in 1..Len(server) : server[i] # "/") =>
                  r = <<"\\", "\\">> \o server \o <<"\\">>
                         \o toWindowsPath(share).value
            /\ (server = ExampleServer /\ Len(share) = 18) =>
                  r = <<"\\", "\\", "s", "e", "r", "v", "e", "r", "\\",
                        "s", "o", "m", "e", "\\", "p", "a", "t", "h", "\\",
                        "t", "o", "\\", "a", "\\", "l", "o", "g">>

\* toUncPath applied to a server name that holds a forward slash and a share
\* path that holds one.
C6_Witness ==
    /\ fnCall.fn = "toUncPath"
    /\ \E i \in 1..Len(fnCall.args[1]) : fnCall.args[1][i] = "/"
    /\ \E i \in 1..Len(fnCall.args[2]) : fnCall.args[2][i] = "/"
    /\ fnRet.kind = "return"

\* C7 as stated: each line parser, given any string, returns its first match
\* or the not-found signal null; none throws on a line without a match.
C7_Original ==
    fnCall.fn \in {"parseNumber", "parseDriveLetter", "parseStatus", "parseUNC"} =>
        /\ fnRet.kind = "return"
        /\ \/ fnRet.value = null
           \/ \E i, j \in 1..Len(fnCall.args[1]) :
                 fnRet.value = SubSeq(fnCall.args[1], i, j)

-----------------------------------------------------------------------------
(* Properties of the shell commands                                        *)

\* C8 as stated: mount(unc, path) without credentials does not throw, spawns
\* net with exactly ['use', '*', toUncPath(unc, path)], resolves to the drive
\* letter in the command's stdout and rejects when the command fails.
C8_Original ==
    (api.fn \in {"mount", "mount1"}
        /\ ~api.credentials.given
        /\ ~(Falsy(api.args[1]) /\ Falsy(api.args[2]))) =>
        /\ api.completion = "returned"
        /\ Len(procs) = 1
        /\ procs[1].cmd = W_net
        /\ procs[1].args = <<W_use, W_star, toUncPath(api.args[1], api.args[2]).value>>
        /\ procs[1].state = "failed" => api.promise.state = "rejected"
        /\ (procs[1].state = "succeeded"
              /\ parseDriveLetter(procs[1].stdout).value # null) =>
              /\ api.promise.state = "fulfilled"
              /\ api.promise.value = parseDriveLetter(procs[1].stdout).value

\* C9 as stated: statByDriveLetter / getStats starts one wmic query per entry
\* of wmicArgs; once both commands have succeeded, in either order, the
\* promise is resolved with an object of the two keys freeSpace and size, each
\* a number; once a command has failed the promise is rejected.
C9_Original ==
    api.fn \in {"statByDriveLetter", "getStats"} =>
        /\ Len(procs) = 2
        /\ \A i \in 1..2 :
              /\ procs[i].cmd = W_wmic
              /\ procs[i].args[5] = WmicWord(wmicArgs[i])
        /\ (\E i \in 1..2 : procs[i].state = "failed") =>
              api.promise.state = "rejected"
        /\ (\A i \in 1..2 : procs[i].state = "succeeded") =>
              /\ api.promise.state = "fulfilled"
              /\ DOMAIN api.promise.value = {"freeSpace", "size"}
              /\ \A i \in 1..2 :
                    /\ api.promise.value[wmicArgs[i]] \in Nat
                    /\ parseNumber(procs[i].stdout).kind = "return" =>
                          api.promise.value[wmicArgs[i]] =
                              Number(parseNumber(procs[i].stdout).value)

\* A line that starts with a status word and contains a drive letter.
DriveLine(line) ==
    /\ Len(line) >= 1
    /\ IsWord(line[1])
    /\ \E i \in 1..(Len(line) - 1) : line[i] \in Upper /\ line[i + 1] = ":"

\* The lines that `net use` printed after the first 6 and that are DriveLines.
DriveLines == SelectSeq(SubSeq(procs[1].lines, 7, Len(procs[1].lines)), DriveLine)

\* C10 as stated: once `net use` has succeeded, mountedDrives() is resolved
\* with one { letter, unc } entry for each line after the first 6 that starts
\* with a status word and contains a drive letter, and isMounted(unc) is
\* resolved with the letter of the first entry whose unc is \\ followed by unc
\* with its forward slashes turned into backslashes, or with undefined when
\* there is none.
C10_Original ==
    (api.fn \in {"mountedDrives", "isMounted"} /\ procs[1].state = "succeeded") =>
        /\ api.promise.state = "fulfilled"
        /\ api.fn = "mountedDrives" =>
              /\ Len(api.promise.value) = Len(DriveLines)
              /\ \A k \in 1..Len(DriveLines) :
                    /\ api.promise.value[k].letter = parseDriveLetter(DriveLines[k]).value
                    /\ parseUNC(DriveLines[k]).kind = "return" =>
                          api.promise.value[k].unc = parseUNC(DriveLines[k]).value
        /\ api.fn = "isMounted" =>
              LET wanted == <<"\\", "\\">> \o toWindowsPath(api.args[1]).value
                  found == {k \in 1..Len(DriveLines) :
                               /\ parseUNC(DriveLines[k]).kind = "return"
                               /\ parseUNC(DriveLines[k]).value = wanted}
              IN  api.promise.value =
                      IF found = {} THEN undefined
                      ELSE parseDriveLetter(DriveLines[Min(found)]).value

-----------------------------------------------------------------------------
(* Properties of calls in flight together, of settlement, of missing sizes *)

\* The entry of files a list of deliveries leaves for path k: that of the
\* last delivery of k.
LastEntry(deliveries, k) ==
    LET last == CHOOSE i \in 1..Len(deliveries) :
                    /\ deliveries[i].path = k
                    /\ \A j \in (i + 1)..Len(deliveries) : deliveries[j].path # k
    IN  FileEntry(k, deliveries[last].stats)

\* C11: with two calls of statDirectory in flight and their callbacks
\* interleaved in any order, the accumulators of each call hold the files of
\* its own walk only, at every moment, and each call that resolves does so
\* with the size, count and files of its own walk.
C11_OwnWalkOnly ==
    \A c \in Calls :
        invocations[c].fn = "statDirectory" =>
            LET inv == invocations[c]
                own == walks[c].delivered
            IN  /\ inv.count = Len(own)
                /\ inv.size = SumSizes(own)
                /\ DOMAIN inv.files = {own[i].path : i \in 1..Len(own)}
                /\ \A k \in DOMAIN inv.files : inv.files[k] = LastEntry(own, k)
                /\ inv.promise.state = "fulfilled" =>
                      inv.promise.value =
                          [size |-> SumSizes(own), count |-> Len(own),
                           files |-> inv.files]

\* Both calls have resolved; each walk reported a.log, with different sizes,
\* and the first walk reported b.log too.
C11_Witness ==
    /\ \A c \in Calls : invocations[c].promise.state = "fulfilled"
    /\ invocations[1].promise.value.count = 2
    /\ invocations[2].promise.value.count = 1
    /\ invocations[1].promise.value.size = 204
    /\ invocations[2].promise.value.size = 104
    /\ invocations[1].promise.value.files["a.log"].size = 100
    /\ invocations[2].promise.value.files["a.log"].size = 104

\* C12: given a walk that calls onFinish once and reports no file after it,
\* each call of statDirectory settles exactly once: a settled promise and the
\* accumulators its result was built from never change again; the promise
\* settles in the step in which the walk finishes, when every file the walk
\* reported has been applied, resolving with the accumulators when the walk
\* reports no error and rejecting with the error otherwise; and a call whose
\* walk has finished is settled.
C12_SettlesOnce ==
    [][\A c \in Calls :
          LET inv == invocations[c]
              inv2 == invocations'[c]
          IN  /\ inv.promise.state # "pending" =>
                    /\ inv2 = inv
                    /\ walks'[c] = walks[c]
              /\ (inv.promise.state = "pending" /\ inv2.promise.state # "pending") =>
                    /\ inv.fn = "statDirectory"
                    /\ ~walks[c].finished
                    /\ walks'[c].finished
                    /\ walks'[c].delivered = walks[c].delivered
                    /\ inv2.count = Len(walks'[c].delivered)
                    /\ inv2.size = inv.size /\ inv2.count = inv.count
                    /\ inv2.files = inv.files
                    /\ IF walks'[c].err = null
                       THEN inv2.promise =
                                Fulfilled([size |-> inv.size, count |-> inv.count,
                                           files |-> inv.files])
                       ELSE inv2.promise = Rejected(walks'[c].err)
              /\ walks'[c].finished => inv2.promise.state # "pending"
      ]_vars

\* The first call has resolved after two files, the second call has rejected
\* after one file.
C12_Witness ==
    /\ invocations[1].promise.state = "fulfilled"
    /\ Len(walks[1].delivered) = 2
    /\ invocations[1].promise.value.count = 2
    /\ invocations[2].promise.state = "rejected"
    /\ invocations[2].promise.value \in Errors
    /\ Len(walks[2].delivered) = 1

\* The sum of the sizes of the deliveries that report a size.
RECURSIVE SumReported(_)
SumReported(deliveries) ==
    IF deliveries = <<>>
    THEN 0
    ELSE (IF "size" \in DOMAIN deliveries[1].stats
          THEN deliveries[1].stats.size ELSE 0)
         + SumReported(Tail(deliveries))

HasSizeless(deliveries) ==
    \E i \in 1..Len(deliveries) : "size" \notin DOMAIN deliveries[i].stats

\* C13: when the walk delivers a file whose stats have no size, the size
\* statDirectory resolves with is the sum of the sizes of the files that do
\* report one.
C13_Original ==
    \A c \in Calls :
        (/\ invocations[c].fn = "statDirectory"
         /\ invocations[c].promise.state = "fulfilled") =>
            invocations[c].promise.value.size = SumReported(walks[c].delivered)

\* C13, amended: when the walk has delivered a file whose stats have no
\* size, the size statDirectory resolves with (and the number getDirSize
\* resolves with) is NaN, whatever the other files report; the file is still
\* counted, and its entry of files has its name and no size. When every file
\* reports a size, the size is the sum of the sizes.
C13_Amended ==
    \A c \in Calls :
        LET inv == invocations[c]
            delivered == walks[c].delivered
            total == IF HasSizeless(delivered) THEN NaN ELSE SumReported(delivered)
        IN  inv.promise.state = "fulfilled" =>
                IF inv.fn = "statDirectory"
                THEN /\ inv.promise.value.size = total
                     /\ inv.promise.value.count = Len(delivered)
                     /\ \A k \in DOMAIN inv.promise.value.files :
                            LET entry == inv.promise.value.files[k]
                            IN  /\ entry = LastEntry(delivered, k)
                                /\ entry.name = k
                                /\ "size" \in DOMAIN entry <=>
                                      "size" \in DOMAIN LastEntry(delivered, k)
                ELSE inv.promise.value = total

\* statDirectory has resolved after a walk that reported a.log with 100
\* bytes, then b.log without a size, then a.log with 104 bytes.
C13_Witness ==
    /\ invocations[1].fn = "statDirectory"
    /\ invocations[1].promise.state = "fulfilled"
    /\ Len(walks[1].delivered) = 3
    /\ walks[1].delivered[1] = [path |-> "a.log", stats |-> [size |-> 100]]
    /\ walks[1].delivered[2] = [path |-> "b.log", stats |-> SizelessStats]
    /\ walks[1].delivered[3] = [path |-> "a.log", stats |-> [size |-> 104]]
    /\ invocations[1].promise.value.size = NaN
    /\ invocations[1].promise.value.count = 3
    /\ "size" \notin DOMAIN invocations[1].promise.value.files["b.log"]

=============================================================================
